---------------------------- MODULE Spec2Model ----------------------------
(***************************************************************************)
(* Synchronisation and caching layer of the PackTrack backend              *)
(* (src/server.js): the bulk-sync gate, the per-record freshness gate, the *)
(* flag endpoint, the paginated query engine and the issues aggregator,    *)
(* over a Firestore-like document store.                                   *)
(*                                                                         *)
(* A document is a TLA+ record whose DOMAIN is the set of fields the       *)
(* document carries: a merge write is  data @@ old.  Order numbers are the *)
(* integers 1..MaxKeys (document ids, ordered as Firestore orders ids),    *)
(* tracking numbers are 1..MaxTrackings, and 0 is a missing request field. *)
(* Time is in milliseconds, counted from the start of an arbitrary UTC     *)
(* day.  Costs are in cents.  Of an order, the fields the handlers never   *)
(* read again and that label nothing (orderId, customerName,               *)
(* customerEmail, items, carrierCode) are left out.                        *)
(* A handler is one frame in the bag req; it advances from one             *)
(* await to the next in one step.  A write (batch.commit, docRef.set) and  *)
(* the Order Source call can reject, which the handler's catch answers     *)
(* with 500; a rejected read, which answers 500 from a state the handler   *)
(* has not touched, is left out.                                           *)
(***************************************************************************)
EXTENDS Integers, Sequences, FiniteSets, Bags, TLC

\* ------------------------------------------------------------------ bounds
MaxKeys == 2
MaxTrackings == 1
MaxReqs == 2
MaxOps == 4
MaxTicks == 1
MaxPage == 2
MaxLimit == 2
MaxLogs == 3
MaxUsers == 2

\* --------------------------------------------------------------- constants
SYNC_COOLDOWN_MS == 30 * 60 * 1000
MINUTE_MS == 60000
DAY_MS == 24 * 60 * 60 * 1000
\* the first request arrives one cooldown before midnight UTC
T0 == 10 * DAY_MS - SYNC_COOLDOWN_MS

Keys == 1..MaxKeys
Trackings == 1..MaxTrackings
Deltas == {SYNC_COOLDOWN_MS - 1, SYNC_COOLDOWN_MS}

\* the server: the collection, SyncMeta, Date.now(), the requests in flight
VARIABLES store, meta, clock, ticks, ops, req
\* the tracking view of the client: the annotation collection, the component's
\* copy of it and the rows it was given
VARIABLES annStore, annotations, apiRows
\* the time tracker of the client: the logs collection and the addLogEntry
\* calls in progress
VARIABLES logs, calls
view == <<annStore, annotations, apiRows, logs, calls>>
vars == <<store, meta, clock, ticks, ops, req, annStore, annotations, apiRows,
          logs, calls>>

\* ------------------------------------------------------------ JS strings
\* The strings the handlers compare, as character sequences.
Chars(s) ==
  CASE s = "Pending"          -> <<"P","e","n","d","i","n","g">>
    [] s = "In Transit"       -> <<"I","n"," ","T","r","a","n","s","i","t">>
    [] s = "Out for Delivery" -> <<"O","u","t"," ","f","o","r"," ","D","e","l","i","v","e","r","y">>
    [] s = "Delivered"        -> <<"D","e","l","i","v","e","r","e","d">>
    [] s = "Exception"        -> <<"E","x","c","e","p","t","i","o","n">>
    [] s = "shipped"          -> <<"s","h","i","p","p","e","d">>
    [] s = "delivered"        -> <<"d","e","l","i","v","e","r","e","d">>
    [] s = "exception"        -> <<"e","x","c","e","p","t","i","o","n">>
    [] s = "error"            -> <<"e","r","r","o","r">>
    [] s = "issue"            -> <<"i","s","s","u","e">>
    [] s = "fail"             -> <<"f","a","i","l">>
    [] s = "void"             -> <<"v","o","i","d">>
    [] s = "return"           -> <<"r","e","t","u","r","n">>
    [] s = ""                 -> <<>>

LowerChar(c) ==
  CASE c = "P" -> "p" [] c = "I" -> "i" [] c = "T" -> "t" [] c = "O" -> "o"
    [] c = "D" -> "d" [] c = "E" -> "e" [] OTHER -> c

\* String.prototype.toLowerCase
toLowerCase(cs) == [i \in 1..Len(cs) |-> LowerChar(cs[i])]

\* String.prototype.includes
includes(cs, w) ==
  \E i \in 0..(Len(cs) - Len(w)) : \A j \in 1..Len(w) : cs[i + j] = w[j]

\* the status strings a document can carry, and the strings searched in them
StatusStrings ==
  {"", "Pending", "In Transit", "Out for Delivery", "Delivered", "Exception",
   "shipped"}
Needles ==
  {"delivered", "exception", "error", "issue", "fail", "void", "return",
   "Delivered"}

\* status.toLowerCase().includes(needle.toLowerCase()), tabulated
LowerIncludes ==
  [s \in StatusStrings, w \in Needles |->
     includes(toLowerCase(Chars(s)), toLowerCase(Chars(w)))]

\* --------------------------------------------------------------- documents
Has(d, f) == f \in DOMAIN d

\* a merge in which the stored fields win over the written ones
MergeDoc_KeepOld(old, data) == old @@ data

\* a set without {merge: true}: the document becomes data
MergeDoc_Replace(old, data) == data

\* Firestore set(data, {merge: true}) and update(data) on one document:
\* the fields of data replace the stored ones, every other field stays.
MergeDoc(old, data) == data @@ old

\* a validation that lets every request through
Missing_Never(x) == FALSE

\* !trackingNumber, !orderNumber: the field is absent from the body (or empty)
Missing(x) == x = 0

\* The values a JSON body can give the field flagged.
FlagValues ==
  {[type |-> "boolean", v |-> TRUE], [type |-> "boolean", v |-> FALSE],
   [type |-> "string", s |-> "false"], [type |-> "undefined"]}

\* !!x
Truthy(x) ==
  CASE x.type = "boolean" -> x.v
    [] x.type = "string" -> x.s # ""
    [] x.type = "undefined" -> FALSE

\* a batch that applies its writes although commit() rejected
BatchOutcome_Applied(ok, old, new) == new

\* batch.commit() / docRef.set(): all the writes land (ok), or the promise
\* rejects and none does
BatchOutcome(ok, old, new) == IF ok THEN new ELSE old

\* item.upsStatus || item.status || item.orderStatus || ""
ResolvedStatus(d) ==
  IF Has(d, "upsStatus") /\ d.upsStatus # "" THEN d.upsStatus
  ELSE IF Has(d, "status") /\ d.status # "" THEN d.status
  ELSE IF Has(d, "orderStatus") /\ d.orderStatus # "" THEN d.orderStatus
  ELSE ""

\* new Date().toISOString().split('T')[0]: the UTC day of the instant
ShipDateOf(t) == t \div DAY_MS

\* new Date(t).toLocaleDateString(): the day of the instant, as text
toLocaleDateString(t) == ToString(t \div DAY_MS)

\* a division that rounds down
Ceil_Floor(a, b) == a \div b

\* Math.ceil(a / b) for b > 0
Ceil(a, b) == IF a % b = 0 THEN a \div b ELSE (a \div b) + 1

RECURSIVE SeqOfSet(_, _)
\* The elements of S in increasing order when desc = FALSE, decreasing else.
SeqOfSet(S, desc) ==
  IF S = {} THEN <<>>
  ELSE LET x == IF desc THEN CHOOSE y \in S : \A z \in S : z <= y
                        ELSE CHOOSE y \in S : \A z \in S : y <= z
       IN <<x>> \o SeqOfSet(S \ {x}, desc)

\* A query snapshot is a sequence of [id, data] in the order Firestore
\* returns the documents.
Snap(ids) == [i \in 1..Len(ids) |-> [id |-> ids[i], data |-> store[ids[i]]]]

\* a query without the where clause
QueryByTracking_NoWhere(t) == Snap(SeqOfSet(DOMAIN store, FALSE))

\* where('trackingNumber', '==', t).get(): ordered by document id
QueryByTracking(t) ==
  Snap(SeqOfSet({k \in DOMAIN store : Has(store[k], "trackingNumber")
                                      /\ store[k].trackingNumber = t}, FALSE))

\* -------------------------------------------------------- upstream sources
\* fetchLiveOrders: a non-empty list of raw orders, one per order number.
RawOrders ==
  UNION {[S -> [trackingNumber : Trackings, orderStatus : {"shipped"},
                shipmentCost : {400}, insuranceCost : {250}]]
         : S \in (SUBSET Keys) \ {{}}}

\* s.shipmentCost || 0, s.insuranceCost || 0
CostOf(s, field) == IF Has(s, field) THEN s[field] ELSE 0

cleanData(k, s, shipDate, now) ==
  [orderNumber |-> k, shipDate |-> shipDate,
   trackingNumber |-> s.trackingNumber, status |-> s.orderStatus,
   lastUpdated |-> now, upsStatus |-> "Pending",
   delivered |-> FALSE, flagged |-> FALSE,
   labelCost |-> CostOf(s, "shipmentCost") + CostOf(s, "insuranceCost")]

CarrierStatuses == {"In Transit", "Out for Delivery", "Delivered", "Exception"}

\* an update that also sets the order-level status
UpdateData_WithStatus(randomStatus, trackingNumber, now) ==
  [upsStatus |-> randomStatus, status |-> randomStatus,
   location |-> "Local Sort Facility, KY",
   expectedDelivery |-> toLocaleDateString(now + 172800000),
   delivered |-> (randomStatus = "Delivered"),
   trackingUrl |-> trackingNumber, lastUpdated |-> now]

\* updateData of POST /tracking/single for the status the carrier reports
UpdateData(randomStatus, trackingNumber, now) ==
  LET isDelivered == (randomStatus = "Delivered")
  IN [upsStatus |-> randomStatus,
      location |-> IF isDelivered THEN "Front Porch, Destination"
                                  ELSE "Local Sort Facility, KY",
      expectedDelivery |-> IF isDelivered THEN "Delivered"
                           ELSE toLocaleDateString(now + 172800000),
      delivered |-> isDelivered,
      trackingUrl |-> trackingNumber,
      lastUpdated |-> now]

\* ------------------------------------------------------------------- state
\* The requests being handled: a bag of handler frames, each holding the
\* handler's position (pc) and its local variables.
InFlight == BagToSet(req)
Begin(frame) == req' = req (+) SetToBag({frame})
Step(q, frame) == req' = (req (-) SetToBag({q})) (+) SetToBag({frame})

\* the view has loaded nothing
ViewIdle ==
  /\ annStore = <<>>
  /\ annotations = <<>>
  /\ apiRows = <<>>
  /\ logs = <<>>
  /\ calls = EmptyBag

Init ==
  /\ store = <<>>
  /\ meta = <<>>
  /\ clock = T0
  /\ ticks = 0
  /\ ops = 0
  /\ req = EmptyBag
  /\ ViewIdle

\* Date.now() advances
Tick ==
  /\ ticks < MaxTicks
  /\ \E d \in Deltas : clock' = clock + d
  /\ ticks' = ticks + 1
  /\ UNCHANGED <<store, meta, ops, req>>
  /\ UNCHANGED view

\* at most MaxReqs requests are handled at a time, MaxOps in all
CanStart == BagCardinality(req) < MaxReqs /\ ops < MaxOps

\* ------------------------------------------------------ POST /sync/orders
\* now = Date.now(); metaRef.get() is issued
SyncStart ==
  /\ CanStart
  /\ Begin([kind |-> "sync", pc |-> "meta", now |-> clock])
  /\ ops' = ops + 1
  /\ UNCHANGED <<store, meta, clock, ticks>>
  /\ UNCHANGED view

\* a remaining time rounded down to the minute
NextSyncIn_Floor(now, lastSync) ==
  (SYNC_COOLDOWN_MS - (now - lastSync)) \div MINUTE_MS

\* nextSyncIn of the skipped response
NextSyncIn(now, lastSync) == Ceil(SYNC_COOLDOWN_MS - (now - lastSync), MINUTE_MS)

\* a gate whose window is one millisecond short
SyncSkips_ShortWindow(metaSnap, now) ==
  Has(metaSnap, "lastSync") /\ now - metaSnap.lastSync < SYNC_COOLDOWN_MS - 1

\* a gate that lets every sync through
SyncSkips_NoGate(metaSnap, now) == FALSE

\* the gate: metaSnap.exists && now - lastSync < SYNC_COOLDOWN_MS
SyncSkips(metaSnap, now) ==
  Has(metaSnap, "lastSync") /\ now - metaSnap.lastSync < SYNC_COOLDOWN_MS

\* metaSnap arrives; the gate is evaluated; past the gate the Order Source
\* is called and the batch is built
SyncGate(r) ==
  /\ r.kind = "sync" /\ r.pc = "meta"
  /\ LET now == r.now IN
       IF SyncSkips(meta, now)
       THEN Step(r, [kind |-> "sync", pc |-> "done", now |-> now, called |-> FALSE,
               metaSnap |-> meta,
               resp |-> [code |-> 200, success |-> TRUE,
                         nextSyncIn |-> NextSyncIn(now, meta.lastSync)]])
       ELSE \/ \E raw \in RawOrders :
               Step(r, [kind |-> "sync", pc |-> "commit", now |-> now,
                  called |-> TRUE, metaSnap |-> meta,
                  mockOrders |-> [k \in DOMAIN raw |->
                                    cleanData(k, raw[k], ShipDateOf(clock), now)]])
            \* the Order Source call rejects: catch, 500
            \/ Step(r, [kind |-> "sync", pc |-> "done", now |-> now,
                  called |-> TRUE, metaSnap |-> meta, resp |-> [code |-> 500]])
  /\ UNCHANGED <<store, meta, clock, ticks, ops>>
  /\ UNCHANGED view

\* a batch that leaves out the order with the highest order number
BatchWrites_DropOne(old, orders) ==
  LET last == CHOOSE k \in DOMAIN orders : \A j \in DOMAIN orders : j <= k
      kept == DOMAIN orders \ {last}
  IN [k \in DOMAIN old \cup kept |->
        IF k \in kept
        THEN MergeDoc(IF k \in DOMAIN old THEN old[k] ELSE <<>>, orders[k])
        ELSE old[k]]

\* mockOrders.forEach(order => batch.set(doc(order.orderNumber), order,
\* {merge: true})): the collection once the batch has landed
BatchWrites(old, orders) ==
  [k \in DOMAIN old \cup DOMAIN orders |->
     IF k \in DOMAIN orders
     THEN MergeDoc(IF k \in DOMAIN old THEN old[k] ELSE <<>>, orders[k])
     ELSE old[k]]

\* batch.commit(): every order and SyncMeta are written atomically, or the
\* commit rejects, nothing is written and the catch answers 500
SyncCommit(r) ==
  /\ r.kind = "sync" /\ r.pc = "commit"
  /\ \E ok \in BOOLEAN :
       /\ store' = BatchOutcome(ok, store, BatchWrites(store, r.mockOrders))
       /\ meta' = BatchOutcome(ok, meta, MergeDoc(meta, [lastSync |-> r.now]))
       /\ Step(r, [kind |-> "sync", pc |-> "done", now |-> r.now,
             called |-> TRUE, metaSnap |-> r.metaSnap,
             mockOrders |-> r.mockOrders,
             resp |-> IF ok
                      THEN [code |-> 200, success |-> TRUE,
                            count |-> Cardinality(DOMAIN r.mockOrders)]
                      ELSE [code |-> 500]])
  /\ UNCHANGED <<clock, ticks, ops>>
  /\ UNCHANGED view

\* --------------------------------------------------- POST /tracking/single
\* 400 on a missing trackingNumber; else now = Date.now(), query issued
RefreshStart(t) ==
  /\ CanStart
  /\ Begin(IF Missing(t)
       THEN [kind |-> "refresh", pc |-> "done", trackingNumber |-> t,
             called |-> FALSE, snap |-> <<>>, resp |-> [code |-> 400]]
       ELSE [kind |-> "refresh", pc |-> "query", trackingNumber |-> t,
             now |-> clock])
  /\ ops' = ops + 1
  /\ UNCHANGED <<store, meta, clock, ticks>>
  /\ UNCHANGED view

\* data.delivered === true || upsStatus.toLowerCase().includes('delivered')
IsDeliveredDoc(data) ==
  \/ (Has(data, "delivered") /\ data.delivered = TRUE)
  \/ (Has(data, "upsStatus") /\ data.upsStatus # ""
      /\ LowerIncludes[data.upsStatus, "delivered"])

\* data.lastUpdated && now - data.lastUpdated < SYNC_COOLDOWN_MS
IsFreshDoc(data, now) ==
  /\ Has(data, "lastUpdated") /\ data.lastUpdated # 0
  /\ now - data.lastUpdated < SYNC_COOLDOWN_MS

\* the freshness gate looks at querySnap.docs[0]
ServedFromCache(querySnap, now) ==
  /\ Len(querySnap) > 0
  /\ (IsDeliveredDoc(querySnap[1].data) \/ IsFreshDoc(querySnap[1].data, now))

\* querySnap arrives; the gate is evaluated; past the gate the Carrier
\* Tracking Source is called
RefreshQuery(r) ==
  /\ r.kind = "refresh" /\ r.pc = "query"
  /\ LET t == r.trackingNumber
         now == r.now
         querySnap == QueryByTracking(t)
     IN IF ServedFromCache(querySnap, now)
        THEN Step(r, [kind |-> "refresh", pc |-> "done", trackingNumber |-> t,
                now |-> now, called |-> FALSE, snap |-> querySnap,
                resp |-> [code |-> 200, body |-> querySnap[1].data]])
        ELSE \E randomStatus \in CarrierStatuses :
             LET updateData == UpdateData(randomStatus, t, now) IN
             Step(r, IF Len(querySnap) > 0
               THEN [kind |-> "refresh", pc |-> "commit", trackingNumber |-> t,
                     now |-> now, called |-> TRUE, snap |-> querySnap,
                     updateData |-> updateData]
               ELSE [kind |-> "refresh", pc |-> "done", trackingNumber |-> t,
                     now |-> now, called |-> TRUE, snap |-> querySnap,
                     resp |-> [code |-> 200, body |-> updateData]])
  /\ UNCHANGED <<store, meta, clock, ticks, ops>>
  /\ UNCHANGED view

\* a batch that updates the first document of the snapshot only
BatchTargets_FirstOnly(querySnap) == {querySnap[1].id}

\* querySnap.forEach(d => batch.update(d.ref, updateData)): the documents
\* the batch writes
BatchTargets(querySnap) == {querySnap[i].id : i \in 1..Len(querySnap)}

\* batch.commit(): updateData is merged into every document of querySnap, or
\* the commit rejects, nothing is written and the catch answers 500
RefreshCommit(r) ==
  /\ r.kind = "refresh" /\ r.pc = "commit"
  /\ \E ok \in BOOLEAN :
       /\ store' = BatchOutcome(ok, store,
                      [k \in DOMAIN store |->
                         IF k \in BatchTargets(r.snap)
                         THEN MergeDoc(store[k], r.updateData)
                         ELSE store[k]])
       /\ Step(r, [kind |-> "refresh", pc |-> "done",
             trackingNumber |-> r.trackingNumber, now |-> r.now,
             called |-> TRUE, snap |-> r.snap, updateData |-> r.updateData,
             resp |-> IF ok THEN [code |-> 200, body |-> r.updateData]
                      ELSE [code |-> 500]])
  /\ UNCHANGED <<meta, clock, ticks, ops>>
  /\ UNCHANGED view

\* -------------------------------------------------------------- POST /flag
\* 400 on a missing orderNumber; else the write {flagged, lastUpdated:
\* Date.now()} is built and sent
FlagStart(o, flagged) ==
  /\ CanStart
  /\ Begin(IF Missing(o)
       THEN [kind |-> "flag", pc |-> "done", orderNumber |-> o,
             flagged |-> flagged, resp |-> [code |-> 400]]
       ELSE [kind |-> "flag", pc |-> "commit", orderNumber |-> o,
             flagged |-> flagged,
             data |-> [flagged |-> Truthy(flagged), lastUpdated |-> clock]])
  /\ ops' = ops + 1
  /\ UNCHANGED <<store, meta, clock, ticks>>
  /\ UNCHANGED view

\* docRef.set(data, {merge: true}) lands, or rejects and the catch answers
\* 500
FlagCommit(r) ==
  /\ r.kind = "flag" /\ r.pc = "commit"
  /\ LET o == r.orderNumber IN
     \E ok \in BOOLEAN :
       /\ store' = BatchOutcome(ok, store,
                      [k \in DOMAIN store \cup {o} |->
                         IF k = o
                         THEN MergeDoc(IF o \in DOMAIN store THEN store[o]
                                       ELSE <<>>, r.data)
                         ELSE store[k]])
       /\ Step(r, [kind |-> "flag", pc |-> "done", orderNumber |-> o,
             flagged |-> r.flagged, data |-> r.data,
             resp |-> IF ok THEN [code |-> 200, success |-> TRUE,
                                  flagged |-> Truthy(r.flagged)]
                      ELSE [code |-> 500]])
  /\ UNCHANGED <<meta, clock, ticks, ops>>
  /\ UNCHANGED view

\* ------------------------------------------------- query / pagination engine
Max(S) == CHOOSE y \in S : \A z \in S : z <= y
Min(S) == CHOOSE y \in S : \A z \in S : y <= z

RECURSIVE Descending(_, _, _)
\* the members of S within lo..hi, highest first
Descending(S, lo, hi) ==
  IF lo > hi THEN <<>>
  ELSE IF lo = hi THEN (IF lo \in S THEN <<lo>> ELSE <<>>)
  ELSE LET mid == (lo + hi) \div 2
       IN Descending(S, mid + 1, hi) \o Descending(S, lo, mid)

RECURSIVE OrderByDesc(_, _)
\* orderBy(field, 'desc'): the documents that carry the field, highest value
\* first, equal values by document id, also descending
OrderByDesc(S, field) ==
  IF S = {} THEN <<>>
  ELSE LET top == Max({store[k][field] : k \in S})
           first == {k \in S : store[k][field] = top}
       IN Descending(first, Min(first), Max(first))
          \o OrderByDesc(S \ first, field)

\* collection.orderBy('lastUpdated', 'desc').get(), as doc.data() values
BaselineDocs ==
  LET ids == OrderByDesc({k \in DOMAIN store : Has(store[k], "lastUpdated")},
                         "lastUpdated")
  IN [i \in 1..Len(ids) |-> store[ids[i]]]

\* Array.prototype.slice(from, to) with 0 <= from
Slice(seq, from, to) ==
  LET hi == IF to < Len(seq) THEN to ELSE Len(seq)
  IN IF from >= hi THEN <<>> ELSE SubSeq(seq, from + 1, hi)

\* status.includes(statusFilter.toLowerCase()) on the resolved status
StatusMatches(item, statusFilter) ==
  \/ statusFilter = ""
  \/ LowerIncludes[ResolvedStatus(item), statusFilter]

\* the filter of GET /orders
OrdersFilter(item, statusFilter) == StatusMatches(item, statusFilter)

\* the filter of GET /tracking ('No Tracking' is never stored by this server)
TrackingFilter(item, statusFilter) ==
  /\ Has(item, "trackingNumber") /\ item.trackingNumber # 0
  /\ StatusMatches(item, statusFilter)

ListFilter(endpoint, item, statusFilter) ==
  IF endpoint = "tracking" THEN TrackingFilter(item, statusFilter)
  ELSE OrdersFilter(item, statusFilter)

\* a pagination whose first page starts at index limit
Paginate_OffByOne(data, page, limit) ==
  LET total == Len(data)
      startIndex == page * limit
  IN [data |-> Slice(data, startIndex, startIndex + limit),
      total |-> total, page |-> page, totalPages |-> Ceil(total, limit)]

\* step 4 of getPaginatedData: total, totalPages, slice
Paginate(data, page, limit) ==
  LET total == Len(data)
      startIndex == (page - 1) * limit
  IN [data |-> Slice(data, startIndex, startIndex + limit),
      total |-> total, page |-> page, totalPages |-> Ceil(total, limit)]

\* getPaginatedData(COLLECTION_NAME, page, limit, filter) on a snapshot
getPaginatedData(docs, endpoint, statusFilter, page, limit) ==
  LET Keep(item) == ListFilter(endpoint, item, statusFilter)
  IN Paginate(SelectSeq(docs, Keep), page, limit)

\* ------------------------------------------------------- issues aggregator
RECENT_LIMIT == 100
RECENT_LIMIT_V1 == 200

\* d.orderNumber as a Map key; 0 stands for undefined
OrderNumberOf(d) == IF Has(d, "orderNumber") THEN d.orderNumber ELSE 0

\* where('flagged', '==', true).get(), as data values in document-id order
\* (the query for flagged == 'true' that follows it finds nothing: every
\* handler writes flagged as a boolean)
FlaggedDocs ==
  LET ids == SeqOfSet({k \in DOMAIN store : Has(store[k], "flagged")
                                            /\ store[k].flagged = TRUE}, FALSE)
  IN [i \in 1..Len(ids) |-> store[ids[i]]]

\* a recent fetch without limit(n)
RecentDocs_NoLimit(field, n) ==
  LET ids == OrderByDesc({k \in DOMAIN store : Has(store[k], field)}, field)
  IN [i \in 1..Len(ids) |-> store[ids[i]]]

\* orderBy(field, 'desc').limit(n).get(), as data values
RecentDocs(field, n) ==
  LET ids == OrderByDesc({k \in DOMAIN store : Has(store[k], field)}, field)
  IN Slice([i \in 1..Len(ids) |-> store[ids[i]]], 0, n)

\* the error vocabulary of handleIssuesRequest
IsErrorDoc(item) ==
  \E w \in {"exception", "error", "issue", "fail", "void", "return"} :
    LowerIncludes[ResolvedStatus(item), w]

\* the vocabulary of the earlier getIssuesData
IsErrorDocV1(item) ==
  \E w \in {"exception", "error", "issue", "fail"} :
    LowerIncludes[ResolvedStatus(item), w]

\* A JS Map as a sequence of <<key, value>> in insertion order.
MapHas(m, k) == \E i \in 1..Len(m) : m[i][1] = k

\* a set that adds an entry also when the key is present
MapSet_Append(m, k, v) == Append(m, <<k, v>>)

\* Map.prototype.set: an existing key keeps its place and takes the value
MapSet(m, k, v) ==
  IF MapHas(m, k)
  THEN [i \in 1..Len(m) |-> IF m[i][1] = k THEN <<k, v>> ELSE m[i]]
  ELSE Append(m, <<k, v>>)

RECURSIVE SetAll(_, _)
\* docs.forEach(d => map.set(d.orderNumber, d))
SetAll(m, docs) ==
  IF docs = <<>> THEN m
  ELSE SetAll(MapSet(m, OrderNumberOf(Head(docs)), Head(docs)), Tail(docs))

RECURSIVE SetAbsent(_, _)
\* docs.forEach(d => { if (!map.has(d.orderNumber)) map.set(d.orderNumber, d) })
SetAbsent(m, docs) ==
  IF docs = <<>> THEN m
  ELSE LET k == OrderNumberOf(Head(docs))
       IN SetAbsent(IF MapHas(m, k) THEN m ELSE MapSet(m, k, Head(docs)),
                    Tail(docs))

\* Array.from(map.values())
MapValues(m) == [i \in 1..Len(m) |-> m[i][2]]

IsFlagged(d) == Has(d, "flagged") /\ d.flagged = TRUE

\* new Date(d.shipDate || 0).getTime()
ShipTime(d) == IF Has(d, "shipDate") THEN d.shipDate * DAY_MS ELSE 0

\* a comparator with the signs of the flag test exchanged
IssuesCompare_FlagsLast(a, b) ==
  IF IsFlagged(a) /\ ~IsFlagged(b) THEN 1
  ELSE IF ~IsFlagged(a) /\ IsFlagged(b) THEN -1
  ELSE ShipTime(b) - ShipTime(a)

\* the comparator of handleIssuesRequest: flags first, then shipDate desc
IssuesCompare(a, b) ==
  IF IsFlagged(a) /\ ~IsFlagged(b) THEN -1
  ELSE IF ~IsFlagged(a) /\ IsFlagged(b) THEN 1
  ELSE ShipTime(b) - ShipTime(a)

\* the comparator of getIssuesData: flags first, then lastUpdated desc
IssuesCompareV1(a, b) ==
  IF IsFlagged(a) # IsFlagged(b) THEN (IF IsFlagged(a) THEN -1 ELSE 1)
  ELSE (IF Has(b, "lastUpdated") THEN b.lastUpdated ELSE 0)
       - (IF Has(a, "lastUpdated") THEN a.lastUpdated ELSE 0)

Compare(v1, a, b) == IF v1 THEN IssuesCompareV1(a, b) ELSE IssuesCompare(a, b)

RECURSIVE InsertSorted(_, _, _)
\* x goes behind every element that does not compare greater than x
InsertSorted(sorted, x, v1) ==
  IF sorted = <<>> THEN <<x>>
  ELSE IF Compare(v1, Head(sorted), x) <= 0
       THEN <<Head(sorted)>> \o InsertSorted(Tail(sorted), x, v1)
       ELSE <<x>> \o sorted

RECURSIVE SortDocs(_, _, _)
\* Array.prototype.sort (stable) with the issues comparator
SortDocs(acc, list, v1) ==
  IF list = <<>> THEN acc
  ELSE SortDocs(InsertSorted(acc, Head(list), v1), Tail(list), v1)

\* steps 3-5 of handleIssuesRequest on its two snapshots
handleIssuesRequest(flaggedDocs, recentCandidates) ==
  LET errorDocs == SelectSeq(recentCandidates, IsErrorDoc)
      combinedMap == SetAbsent(SetAll(<<>>, flaggedDocs), errorDocs)
      mergedList == SortDocs(<<>>, MapValues(combinedMap), FALSE)
  IN [data |-> mergedList, total |-> Len(mergedList),
      totalPages |-> 1, page |-> 1]

\* steps 3-5 of the earlier getIssuesData on its two snapshots
MergedIssuesV1(flaggedDocs, recentDocs) ==
  LET systemIssues == SelectSeq(recentDocs, IsErrorDocV1)
      merged == SetAbsent(SetAll(<<>>, flaggedDocs), systemIssues)
  IN SortDocs(<<>>, MapValues(merged), TRUE)

\* getIssuesData: the merged list, paginated
getIssuesData(flaggedDocs, recentDocs, page, limit) ==
  Paginate(MergedIssuesV1(flaggedDocs, recentDocs), page, limit)

StatusFilters == {"", "Delivered", "Issues"}

\* ------------------------------------------- GET /orders and GET /tracking
\* status=Issues: the flagged snapshot is read
IssuesStart ==
  /\ CanStart
  /\ Begin([kind |-> "issues", pc |-> "recent", flaggedDocs |-> FlaggedDocs])
  /\ ops' = ops + 1
  /\ UNCHANGED <<store, meta, clock, ticks>>
  /\ UNCHANGED view

\* the recent snapshot is read; the merged list is the response
IssuesRecent(r) ==
  /\ r.kind = "issues" /\ r.pc = "recent"
  /\ LET recentCandidates == RecentDocs("shipDate", RECENT_LIMIT) IN
     Step(r, [kind |-> "issues", pc |-> "done", flaggedDocs |-> r.flaggedDocs,
        recentCandidates |-> recentCandidates,
        resp |-> [code |-> 200] @@
                 handleIssuesRequest(r.flaggedDocs, recentCandidates)])
  /\ UNCHANGED <<store, meta, clock, ticks, ops>>
  /\ UNCHANGED view

\* any other status: one snapshot, filter, slice; /tracking answers with the
\* result, /orders goes on to read SyncMeta
GetList(endpoint, statusFilter, page, limit) ==
  /\ CanStart
  /\ statusFilter # "Issues"
  /\ LET result == getPaginatedData(BaselineDocs, endpoint, statusFilter,
                                    page, limit)
     IN Begin(IF endpoint = "orders"
              THEN [kind |-> "list", pc |-> "meta", endpoint |-> endpoint,
                    result |-> result]
              ELSE [kind |-> "list", pc |-> "done", endpoint |-> endpoint,
                    resp |-> [code |-> 200] @@ result])
  /\ ops' = ops + 1
  /\ UNCHANGED <<store, meta, clock, ticks>>
  /\ UNCHANGED view

\* GET /orders: lastSync = meta.exists ? meta.data().lastSync : 0
GetOrdersMeta(r) ==
  /\ r.kind = "list" /\ r.pc = "meta"
  /\ Step(r, [kind |-> "list", pc |-> "done", endpoint |-> r.endpoint,
              resp |-> [code |-> 200,
                        lastSync |-> IF Has(meta, "lastSync")
                                     THEN meta.lastSync ELSE 0] @@ r.result])
  /\ UNCHANGED <<store, meta, clock, ticks, ops>>
  /\ UNCHANGED view

\* the response has been sent; the handler's locals are gone
Finish(r) ==
  /\ r.pc = "done"
  /\ req' = req (-) SetToBag({r})
  /\ UNCHANGED <<store, meta, clock, ticks, ops>>
  /\ UNCHANGED view

Next ==
  \/ Tick
  \/ SyncStart
  \/ \E r \in InFlight : SyncGate(r)
  \/ \E r \in InFlight : SyncCommit(r)
  \/ \E t \in 0..MaxTrackings : RefreshStart(t)
  \/ \E r \in InFlight : RefreshQuery(r)
  \/ \E r \in InFlight : RefreshCommit(r)
  \/ \E o \in 0..MaxKeys, f \in FlagValues : FlagStart(o, f)
  \/ \E r \in InFlight : FlagCommit(r)
  \/ IssuesStart
  \/ \E r \in InFlight : IssuesRecent(r)
  \/ \E e \in {"orders", "tracking"}, f \in StatusFilters,
        p \in 1..MaxPage, l \in 1..MaxLimit : GetList(e, f, p, l)
  \/ \E r \in InFlight : GetOrdersMeta(r)
  \/ \E r \in InFlight : Finish(r)

Spec == Init /\ [][Next]_vars

\* -------------------------------------------- bulk syncs one at a time
\* The server when the client sends a POST /sync/orders only after the
\* previous one has been answered; every other request as in Spec.
SyncInProgress == \E q \in InFlight : q.kind = "sync" /\ q.pc # "done"

SerialSyncStart == ~SyncInProgress /\ SyncStart

SerialNext ==
  \/ Tick
  \/ SerialSyncStart
  \/ \E r \in InFlight : SyncGate(r)
  \/ \E r \in InFlight : SyncCommit(r)
  \/ \E t \in 0..MaxTrackings : RefreshStart(t)
  \/ \E r \in InFlight : RefreshQuery(r)
  \/ \E r \in InFlight : RefreshCommit(r)
  \/ \E o \in 0..MaxKeys, f \in FlagValues : FlagStart(o, f)
  \/ \E r \in InFlight : FlagCommit(r)
  \/ IssuesStart
  \/ \E r \in InFlight : IssuesRecent(r)
  \/ \E e \in {"orders", "tracking"}, f \in StatusFilters,
        p \in 1..MaxPage, l \in 1..MaxLimit : GetList(e, f, p, l)
  \/ \E r \in InFlight : GetOrdersMeta(r)
  \/ \E r \in InFlight : Finish(r)

SerialSpec == Init /\ [][SerialNext]_vars

\* ------------------------------ a collection larger than the recent window
\* The Issues requests over a collection of RECENT_LIMIT + 1 orders, each
\* with its own tracking number and all synced at T0.  Three of them vary:
\* the lowest, the highest and the one before it can each have been
\* refreshed to "Exception" and flagged, and one of them can have shipped a
\* day before the rest.
WindowKeys == 1..(RECENT_LIMIT + 1)
Probes == {1, RECENT_LIMIT, RECENT_LIMIT + 1}

\* order k as sync, then /tracking/single, then /flag leave it
WindowDoc(k, shipDate, refreshed, flagged) ==
  LET synced == cleanData(k, [trackingNumber |-> k, orderStatus |-> "shipped"],
                          shipDate, T0)
      tracked == IF refreshed
                 THEN MergeDoc(synced, UpdateData("Exception", k, T0))
                 ELSE synced
  IN IF flagged THEN MergeDoc(tracked, [flagged |-> TRUE, lastUpdated |-> T0])
     ELSE tracked

WindowInit ==
  /\ \E early \in Probes \cup {0}, E \in SUBSET Probes, F \in SUBSET Probes :
       store = [k \in WindowKeys |->
                  WindowDoc(k, IF k = early THEN ShipDateOf(T0) - 1
                               ELSE ShipDateOf(T0),
                            k \in E, k \in F)]
  /\ meta = [lastSync |-> T0]
  /\ clock = T0
  /\ ticks = 0
  /\ ops = 0
  /\ req = EmptyBag
  /\ ViewIdle

WindowNext ==
  \/ IssuesStart
  \/ \E r \in InFlight : IssuesRecent(r)
  \/ \E r \in InFlight : Finish(r)

WindowSpec == WindowInit /\ [][WindowNext]_vars

\* ------------------------------------------------------ the tracking view
\* PackageTrackingView: the rows of a GET /tracking page, merged with the
\* annotations the component has received from its subscription.
NoteTexts == {"", "hold"}

\* a row of GET /tracking: an order as sync and /flag leave it
ViewRows ==
  {MergeDoc(cleanData(k, [trackingNumber |-> t, orderStatus |-> "shipped"],
                      ShipDateOf(T0), T0),
            [flagged |-> f, lastUpdated |-> T0])
     : k \in Keys, t \in Trackings, f \in BOOLEAN}

\* setDoc(doc(db, ANNOTATIONS_COL, trackingNumber), {...}, {merge: true})
saveAnnotation(trackingNumber, flagged, notes) ==
  /\ ~Missing(trackingNumber)
  /\ annStore' =
       [t \in DOMAIN annStore \cup {trackingNumber} |->
          IF t = trackingNumber
          THEN MergeDoc(IF t \in DOMAIN annStore THEN annStore[t] ELSE <<>>,
                        [trackingNumber |-> trackingNumber, flagged |-> flagged,
                         notes |-> notes, updatedAt |-> clock])
          ELSE annStore[t]]
  /\ UNCHANGED <<store, meta, clock, ticks, ops, req, annotations, apiRows,
                 logs, calls>>

\* onSnapshot: lookup[doc.id] = doc.data(); setAnnotations(lookup)
subscribeToAnnotations ==
  /\ annotations' = annStore
  /\ UNCHANGED <<store, meta, clock, ticks, ops, req, annStore, apiRows,
                 logs, calls>>

\* the parent passes the data of a GET /tracking response
SetApiRows(rows) ==
  /\ apiRows' = rows
  /\ UNCHANGED <<store, meta, clock, ticks, ops, req, annStore, annotations,
                 logs, calls>>

\* mergedRows: {...row, flagged: ann ? ann.flagged : false,
\*              notes: ann ? ann.notes : ''}
mergedRows ==
  [i \in 1..Len(apiRows) |->
     LET row == apiRows[i]
         hasAnn == row.trackingNumber \in DOMAIN annotations
     IN [flagged |-> IF hasAnn THEN annotations[row.trackingNumber].flagged
                     ELSE FALSE,
         notes |-> IF hasAnn THEN annotations[row.trackingNumber].notes
                   ELSE ""] @@ row]

ViewNext ==
  \/ \E t \in 0..MaxTrackings, f \in BOOLEAN, n \in NoteTexts :
        saveAnnotation(t, f, n)
  \/ subscribeToAnnotations
  \/ \E n \in 0..MaxLimit : \E rows \in [1..n -> ViewRows] : SetApiRows(rows)

ViewSpec == Init /\ [][ViewNext]_vars

\* ------------------------------------------------------- the time tracker
\* addLogEntry of src/firebase.ts, in its three revisions: "compat" (the
\* compat API), "modular" (the modular API) and "guarded" (the modular API
\* with the clock-out in a try/catch).  The logs collection is a sequence,
\* a document's id its index; every Firestore call can reject.
Revisions == {"compat", "modular", "guarded"}
Users == 1..MaxUsers

\* endTime: null while the log is active, a timestamp after
Null == [type |-> "null"]
Timestamp(t) == [type |-> "number", v |-> t]

\* where("endTime", "==", null), in "guarded" also where("userId", "==",
\* log.userId): the ids of the matching logs
ActiveLogs(rev, userId) ==
  {i \in 1..Len(logs) :
     /\ logs[i].endTime = Null
     /\ rev = "guarded" => logs[i].userId = userId}

\* a rejected await: "guarded" catches it and goes on to the add, the other
\* revisions let it reject the call
Rejected(r) ==
  IF r.rev = "guarded"
  THEN [rev |-> r.rev, log |-> r.log, pc |-> "add", skipped |-> TRUE]
  ELSE [rev |-> r.rev, log |-> r.log, pc |-> "done", skipped |-> TRUE,
        outcome |-> "rejected"]

LogStep(q, frame) == calls' = (calls (-) SetToBag({q})) (+) SetToBag({frame})

\* addLogEntry(log) is called and issues the query for the active logs
AddLogStart(rev, userId) ==
  /\ BagCardinality(calls) < MaxReqs
  /\ Len(logs) + BagCardinality(calls) < MaxLogs
  /\ calls' = calls (+) SetToBag({[rev |-> rev, pc |-> "query",
                  log |-> [userId |-> userId, startTime |-> clock,
                           endTime |-> Null]]})
  /\ UNCHANGED <<store, meta, clock, ticks, ops, req, annStore, annotations,
                 apiRows, logs>>

\* the snapshot arrives and the batch is built, or the query rejects
AddLogQuery(r) ==
  /\ r.pc = "query"
  /\ \E ok \in BOOLEAN :
       LET snapshot == ActiveLogs(r.rev, r.log.userId) IN
       LogStep(r, IF ~ok THEN Rejected(r)
                  ELSE IF snapshot = {}
                  THEN [rev |-> r.rev, log |-> r.log, pc |-> "add",
                        skipped |-> FALSE]
                  ELSE [rev |-> r.rev, log |-> r.log, pc |-> "commit",
                        snapshot |-> snapshot, endTime |-> Timestamp(clock)])
  /\ UNCHANGED <<store, meta, clock, ticks, ops, req, annStore, annotations,
                 apiRows, logs>>

\* batch.commit(): the active logs of the snapshot are clocked out, or the
\* commit rejects
AddLogCommit(r) ==
  /\ r.pc = "commit"
  /\ \E ok \in BOOLEAN :
       /\ logs' = BatchOutcome(ok, logs,
                     [i \in 1..Len(logs) |->
                        IF i \in r.snapshot
                        THEN MergeDoc(logs[i], [endTime |-> r.endTime])
                        ELSE logs[i]])
       /\ LogStep(r, IF ok THEN [rev |-> r.rev, log |-> r.log, pc |-> "add",
                                 skipped |-> FALSE]
                      ELSE Rejected(r))
  /\ UNCHANGED <<store, meta, clock, ticks, ops, req, annStore, annotations,
                 apiRows>>

\* addDoc(logsRef, log): the new log is in the collection, or the add
\* rejects
AddLogAdd(r) ==
  /\ r.pc = "add"
  /\ \E ok \in BOOLEAN :
       /\ logs' = BatchOutcome(ok, logs, Append(logs, r.log))
       /\ LogStep(r, [rev |-> r.rev, log |-> r.log, pc |-> "done",
                      skipped |-> r.skipped,
                      outcome |-> IF ok THEN "resolved" ELSE "rejected"])
  /\ UNCHANGED <<store, meta, clock, ticks, ops, req, annStore, annotations,
                 apiRows>>

\* the promise of the call has settled
AddLogEnd(r) ==
  /\ r.pc = "done"
  /\ calls' = calls (-) SetToBag({r})
  /\ UNCHANGED <<store, meta, clock, ticks, ops, req, annStore, annotations,
                 apiRows, logs>>

LogNext ==
  \/ \E rev \in Revisions, u \in Users : AddLogStart(rev, u)
  \/ \E r \in BagToSet(calls) : AddLogQuery(r)
  \/ \E r \in BagToSet(calls) : AddLogCommit(r)
  \/ \E r \in BagToSet(calls) : AddLogAdd(r)
  \/ \E r \in BagToSet(calls) : AddLogEnd(r)

LogSpec == Init /\ [][LogNext]_vars

TypeOK ==
  /\ DOMAIN store \subseteq Keys \cup WindowKeys
  /\ clock >= T0
  /\ ops \in 0..MaxOps
  /\ BagCardinality(req) <= MaxReqs
\* ------------------------------------------------------------------ claims
\* q has just taken a step: one copy of the frame q left the bag
Stepped(q) == CopiesIn(q, req') < CopiesIn(q, req)

\* f is the frame a step has just produced
Produced(f) == CopiesIn(f, req') > CopiesIn(f, req)

SnapData(q) == {q.snap[i].data : i \in 1..Len(q.snap)}

PastQuery(q) == q.kind = "refresh" /\ q.pc \in {"commit", "done"}

\* C1: a refresh whose query finds a record of the tracking number that is
\* delivered (delivered = true, or a carrier status containing "delivered")
\* answers with a cached record, without a carrier call and without a write.
C1_TerminalDelivered ==
  \A q \in InFlight :
    (PastQuery(q) /\ \E d \in SnapData(q) : IsDeliveredDoc(d))
      => (q.pc = "done" /\ ~q.called /\ q.resp.body \in SnapData(q))

\* C2: a refresh handled at T' whose query finds a record of the tracking
\* number with T' - lastUpdated < COOLDOWN answers with a cached record,
\* without a carrier call and without a write.
C2_Freshness ==
  \A q \in InFlight :
    (PastQuery(q) /\ \E d \in SnapData(q) :
         q.now - d.lastUpdated < SYNC_COOLDOWN_MS)
      => (q.pc = "done" /\ ~q.called /\ q.resp.body \in SnapData(q))

\* C3: a bulk sync that reads an existing lastSync with now - lastSync <
\* COOLDOWN answers "skipped" at once: no Order Source call, no record
\* written, lastSync unchanged.
C3_IdempotentSync ==
  [][\A q \in InFlight :
      (/\ q.kind = "sync" /\ q.pc = "meta" /\ Stepped(q)
       /\ Has(meta, "lastSync") /\ q.now - meta.lastSync < SYNC_COOLDOWN_MS)
      => (/\ store' = store /\ meta' = meta
          /\ \E f \in BagToSet(req') :
               /\ Produced(f) /\ f.kind = "sync" /\ f.pc = "done"
               /\ ~f.called /\ Has(f.resp, "nextSyncIn"))]_vars

\* two syncs were skipped inside the window opened by a committed one, and
\* lastSync is still the value both of them read
C3_Witness ==
  LET skipped == {q \in InFlight :
                    /\ q.kind = "sync" /\ q.pc = "done" /\ ~q.called
                    /\ Has(q.resp, "nextSyncIn") /\ q.metaSnap = meta}
  IN /\ store # <<>>
     /\ \/ Cardinality(skipped) >= 2
        \/ \E q \in skipped : CopiesIn(q, req) >= 2

IssuesNow == handleIssuesRequest(FlaggedDocs, RecentDocs("shipDate", RECENT_LIMIT))

FlaggedKeys == {k \in DOMAIN store : IsFlagged(store[k])}

\* C4: every stored record with flagged = true has its own entry in the data
\* of the Issues view.
C4_FlagsComplete ==
  LET data == IssuesNow.data IN
  /\ \A k \in FlaggedKeys : \E i \in 1..Len(data) : data[i] = store[k]
  /\ Cardinality({i \in 1..Len(data) : IsFlagged(data[i])})
       >= Cardinality(FlaggedKeys)

FlagsFirst(data) ==
  \A i, j \in 1..Len(data) : (i < j /\ IsFlagged(data[j])) => IsFlagged(data[i])

\* C5: in the list the Issues view returns, every flagged record stands
\* before every record that is not flagged.
C5_IssuesPriority ==
  /\ FlagsFirst(IssuesNow.data)
  /\ \A q \in InFlight :
       (q.kind = "issues" /\ q.pc = "done") => FlagsFirst(q.resp.data)
  /\ LET sorted == MergedIssuesV1(FlaggedDocs,
                                  RecentDocs("lastUpdated", RECENT_LIMIT_V1))
     IN \A page \in 1..MaxPage, limit \in 1..MaxLimit :
          FlagsFirst(Paginate(sorted, page, limit).data)

\* an Issues response lists a flagged record and then a record that is not
C5_Witness ==
  \E q \in InFlight :
    /\ q.kind = "issues" /\ q.pc = "done" /\ Len(q.resp.data) >= 2
    /\ IsFlagged(q.resp.data[1]) /\ ~IsFlagged(q.resp.data[Len(q.resp.data)])

RECURSIVE ConcatPages(_, _, _, _, _, _)
\* the data of pages p..last of one list request, one after the other
ConcatPages(docs, endpoint, statusFilter, limit, p, last) ==
  IF p > last THEN <<>>
  ELSE getPaginatedData(docs, endpoint, statusFilter, p, limit).data
       \o ConcatPages(docs, endpoint, statusFilter, limit, p + 1, last)

\* the stored records that pass the list filter
PassingKeys(endpoint, statusFilter) ==
  {k \in DOMAIN store : ListFilter(endpoint, store[k], statusFilter)}

\* C6: for every limit > 0 the pages 1..totalPages, one after the other, are
\* the records that pass the filter, each once, by lastUpdated descending.
C6_PaginationIdentity ==
  LET docs == BaselineDocs IN
  \A endpoint \in {"orders", "tracking"}, statusFilter \in StatusFilters \ {"Issues"} :
    LET keys == PassingKeys(endpoint, statusFilter) IN
    \A limit \in 1..MaxLimit :
      LET totalPages ==
            getPaginatedData(docs, endpoint, statusFilter, 1, limit).totalPages
          all == ConcatPages(docs, endpoint, statusFilter, limit, 1, totalPages)
      IN /\ Len(all) = Cardinality(keys)
         /\ {all[i] : i \in 1..Len(all)} = {store[k] : k \in keys}
         /\ \A i, j \in 1..Len(all) :
              i < j => all[i].lastUpdated >= all[j].lastUpdated

\* a list request was answered with one page of several
C6_Witness ==
  /\ Cardinality(DOMAIN store) >= 2
  /\ \E q \in InFlight :
       /\ q.kind = "list" /\ q.pc = "done"
       /\ q.resp.totalPages >= 2 /\ Len(q.resp.data) = 1

NoRecordFor(t) ==
  \A k \in DOMAIN store : ~(Has(store[k], "trackingNumber")
                            /\ store[k].trackingNumber = t)

\* C7: a refresh whose query finds no record of the tracking number calls
\* the carrier, answers with the carrier data and leaves the store as it is.
C7_CacheMiss ==
  [][\A q \in InFlight :
      (/\ q.kind = "refresh" /\ q.pc = "query" /\ Stepped(q)
       /\ NoRecordFor(q.trackingNumber))
      => (/\ store' = store /\ meta' = meta
          /\ \E f \in BagToSet(req') :
               /\ Produced(f) /\ f.kind = "refresh" /\ f.pc = "done"
               /\ f.called /\ f.resp.code = 200
               /\ f.resp.body \in {UpdateData(st, q.trackingNumber, q.now) :
                                     st \in CarrierStatuses})]_vars

\* a miss was answered while the store held records it did not touch
C7_Witness ==
  /\ store # <<>>
  /\ \E q \in InFlight :
       /\ q.kind = "refresh" /\ q.pc = "done" /\ q.trackingNumber # 0
       /\ q.called /\ Len(q.snap) = 0 /\ NoRecordFor(q.trackingNumber)

CarrierAndOperatorFields ==
  {"upsStatus", "location", "expectedDelivery", "trackingUrl",
   "delivered", "flagged"}

\* C8: a bulk-sync commit leaves, in every record it upserts that already
\* exists, the carrier fields and delivered and flagged as they were.
C8_SyncPreserves ==
  [][\A q \in InFlight :
      (q.kind = "sync" /\ q.pc = "commit" /\ Stepped(q))
      => \A k \in DOMAIN q.mockOrders \cap DOMAIN store :
           \A f \in CarrierAndOperatorFields :
             Has(store[k], f) => store'[k][f] = store[k][f]]_vars

\* C9: flagged goes from true to false only in the commit of a POST /flag
\* for that order number with flagged false.
C9_FlagNeverAutoCleared ==
  [][\A k \in DOMAIN store :
      (IsFlagged(store[k]) /\ ~IsFlagged(store'[k]))
      => \E q \in InFlight :
           /\ q.kind = "flag" /\ q.pc = "commit" /\ Stepped(q)
           /\ q.orderNumber = k /\ q.data.flagged = FALSE]_vars

\* C10: no write lowers a record's lastUpdated.
C10_LastUpdatedMonotone ==
  [][\A k \in DOMAIN store :
      store'[k].lastUpdated >= store[k].lastUpdated]_vars

\* the orders of the sync frame q are in the collection after the step
AllWritten(q) ==
  \A k \in DOMAIN q.mockOrders :
    /\ k \in DOMAIN store'
    /\ \A f \in DOMAIN q.mockOrders[k] :
         Has(store'[k], f) /\ store'[k][f] = q.mockOrders[k][f]

\* C11: a bulk sync that has called the Order Source and ends without its
\* batch written (the call or the commit failed) answers 500 and leaves
\* every record and SyncMeta as they were, so that a bulk sync arriving now
\* passes the gate exactly if it would have passed before the attempt.
C11_FailedSyncKeepsGate ==
  [][\A q \in InFlight : \A f \in BagToSet(req') :
      (/\ q.kind = "sync" /\ Stepped(q) /\ Produced(f)
       /\ f.kind = "sync" /\ f.pc = "done" /\ f.called
       /\ ~(f.resp.code = 200 /\ Has(meta', "lastSync")
            /\ meta'.lastSync = q.now /\ q.pc = "commit" /\ AllWritten(q)))
      => (/\ f.resp.code = 500
          /\ store' = store /\ meta' = meta
          /\ SyncSkips(meta', clock') = SyncSkips(meta, clock))]_vars

\* a sync whose batch failed has answered 500 beside records and a lastSync
\* of an earlier sync, at a time a new sync passes the gate
C11_Witness ==
  /\ store # <<>> /\ Has(meta, "lastSync") /\ ~SyncSkips(meta, clock)
  /\ \E q \in InFlight :
       /\ q.kind = "sync" /\ q.pc = "done" /\ q.called
       /\ q.resp.code = 500 /\ Has(q, "mockOrders")
       /\ meta.lastSync < q.now

\* C12: SyncMeta changes only in the commit of a bulk sync, to lastSync =
\* that sync's now and together with every order of that sync; a commit
\* writes all of its orders and lastSync, or nothing at all.
C12_SyncAtomicity ==
  [][/\ (meta' # meta) =>
          \E q \in InFlight :
            /\ q.kind = "sync" /\ q.pc = "commit" /\ Stepped(q)
            /\ meta' = [lastSync |-> q.now] /\ AllWritten(q)
     /\ \A q \in InFlight :
          (q.kind = "sync" /\ q.pc = "commit" /\ Stepped(q))
          => \/ (AllWritten(q) /\ meta' = [lastSync |-> q.now])
             \/ (store' = store /\ meta' = meta)]_vars

\* a sync of two orders has committed: both are stored with its timestamp,
\* which is lastSync
C12_Witness ==
  \E q \in InFlight :
    /\ q.kind = "sync" /\ q.pc = "done" /\ q.resp.code = 200
    /\ Has(q, "mockOrders") /\ Cardinality(DOMAIN q.mockOrders) >= 2
    /\ meta = [lastSync |-> q.now]
    /\ \A k \in DOMAIN q.mockOrders :
         k \in DOMAIN store /\ store[k] = q.mockOrders[k]

\* no two entries of data have the same orderNumber
OnePerOrderNumber(data) ==
  \A i, j \in 1..Len(data) :
    i < j => OrderNumberOf(data[i]) # OrderNumberOf(data[j])

\* every entry whose orderNumber the flagged fetch returned is a document of
\* the flagged fetch
FromFlaggedFetch(data, flaggedDocs) ==
  \A i \in 1..Len(data) :
    (\E j \in 1..Len(flaggedDocs) :
        OrderNumberOf(flaggedDocs[j]) = OrderNumberOf(data[i]))
    => \E j \in 1..Len(flaggedDocs) : flaggedDocs[j] = data[i]

\* C13: the Issues output has at most one entry per orderNumber, and the
\* entry of an orderNumber that the flagged fetch returned is the document
\* of the flagged fetch, whatever the recent fetch returned for it.
C13_IssuesDedup ==
  /\ OnePerOrderNumber(IssuesNow.data)
  /\ FromFlaggedFetch(IssuesNow.data, FlaggedDocs)
  /\ \A q \in InFlight :
       (q.kind = "issues" /\ q.pc = "done")
       => /\ OnePerOrderNumber(q.resp.data)
          /\ FromFlaggedFetch(q.resp.data, q.flaggedDocs)
  /\ LET merged == MergedIssuesV1(FlaggedDocs,
                                  RecentDocs("lastUpdated", RECENT_LIMIT_V1))
     IN OnePerOrderNumber(merged) /\ FromFlaggedFetch(merged, FlaggedDocs)

\* an Issues response holds one entry for an order that both fetches
\* returned, flagged in the one and with an error status in the other
C13_Witness ==
  \E q \in InFlight :
    /\ q.kind = "issues" /\ q.pc = "done"
    /\ \E i \in 1..Len(q.flaggedDocs), j \in 1..Len(q.recentCandidates) :
         /\ OrderNumberOf(q.flaggedDocs[i]) = OrderNumberOf(q.recentCandidates[j])
         /\ OrderNumberOf(q.flaggedDocs[i]) # 0
         /\ IsErrorDoc(q.recentCandidates[j])
         /\ \E n \in 1..Len(q.resp.data) : q.resp.data[n] = q.flaggedDocs[i]

\* resp is the one page that holds the whole of merged
WholeSet(resp, merged) ==
  /\ resp.page = 1 /\ resp.totalPages = 1
  /\ resp.total = Len(merged) /\ resp.data = merged

\* C14: whatever page and limit a request with status=Issues carries, its
\* response has page = 1, totalPages = 1, total = the size of the merged
\* set and data = the whole merged, sorted set.  For the paginating
\* getIssuesData this is stated of merged sets of two entries or more, where
\* a page can be a part of the set.
C14_IssuesNeverPaginated ==
  /\ \A q \in InFlight :
       (q.kind = "issues" /\ q.pc = "done")
       => WholeSet(q.resp,
                   handleIssuesRequest(q.flaggedDocs, q.recentCandidates).data)
  /\ LET recentDocs == RecentDocs("lastUpdated", RECENT_LIMIT_V1)
         merged == MergedIssuesV1(FlaggedDocs, recentDocs)
     IN Len(merged) >= 2 =>
          \A page \in 1..MaxPage, limit \in 1..MaxLimit :
            WholeSet(getIssuesData(FlaggedDocs, recentDocs, page, limit),
                     merged)

\* fewer than n documents come before document k in orderBy(field, 'desc')
InWindow(k, field, n) ==
  /\ Has(store[k], field)
  /\ Cardinality({j \in DOMAIN store :
                    /\ Has(store[j], field)
                    /\ \/ store[j][field] > store[k][field]
                       \/ (store[j][field] = store[k][field] /\ j > k)}) < n

\* the resolved status of d contains a word of the error vocabulary
ErrorStatus(d) ==
  \E w \in {"exception", "error", "issue", "fail", "return", "void"} :
    LowerIncludes[ResolvedStatus(d), w]

\* in data, the unflagged records are those of the window with an error status
UnflaggedMembership(data, field, n) ==
  \A k \in DOMAIN store :
    ~IsFlagged(store[k])
    => ((\E i \in 1..Len(data) : data[i] = store[k])
        <=> (ErrorStatus(store[k]) /\ InWindow(k, field, n)))

C16_AnnotationPrecedence ==
  \A i \in 1..Len(apiRows) :
    LET row == apiRows[i]
        shown == mergedRows[i]
        hasAnn == row.trackingNumber \in DOMAIN annotations
    IN /\ shown.flagged =
            (IF Has(row, "flagged") THEN row.flagged
             ELSE IF hasAnn THEN annotations[row.trackingNumber].flagged
             ELSE FALSE)
       /\ shown.notes =
            (IF Has(row, "notes") THEN row.notes
             ELSE IF hasAnn THEN annotations[row.trackingNumber].notes
             ELSE "")

\* the request of frame f came without its required field
LacksField(f) ==
  \/ (f.kind = "refresh" /\ f.trackingNumber = 0)
  \/ (f.kind = "flag" /\ f.orderNumber = 0)

\* C17: a POST /tracking/single without trackingNumber and a POST /flag
\* without orderNumber are answered 400 at once: the handler calls no
\* carrier, issues no query and writes nothing, and no step of such a
\* request changes a record or SyncMeta.
C17_ValidationErrors ==
  [][/\ \A f \in BagToSet(req') :
          LacksField(f)
          => /\ f.pc = "done" /\ f.resp.code = 400
             /\ (f.kind = "refresh" => (~f.called /\ f.snap = <<>>))
             /\ ~Has(f, "data") /\ ~Has(f, "updateData")
     /\ \A f \in InFlight \cup BagToSet(req') :
          (LacksField(f) /\ (Stepped(f) \/ Produced(f)))
          => (store' = store /\ meta' = meta)]_vars

\* both requests were answered 400 beside stored records and a lastSync
C17_Witness ==
  /\ store # <<>> /\ Has(meta, "lastSync")
  /\ \E q \in InFlight :
       q.kind = "refresh" /\ q.trackingNumber = 0 /\ q.resp.code = 400
  /\ \E q \in InFlight :
       q.kind = "flag" /\ q.orderNumber = 0 /\ q.resp.code = 400

\* C18: POST /flag {orderNumber, flagged} takes Date.now() when it is handled
\* and, when its write lands, the record keyed orderNumber has flagged = the
\* truthiness of the request value and lastUpdated = that time, its other
\* fields are as before, every other record and SyncMeta are unchanged, and
\* the answer is {success: true, flagged} with the same boolean.
C18_FlagFrame ==
  [][/\ \A f \in BagToSet(req') :
          (Produced(f) /\ f.kind = "flag" /\ f.pc = "commit")
          => (f.data.lastUpdated = clock /\ store' = store /\ meta' = meta)
     /\ \A q \in InFlight : \A f \in BagToSet(req') :
          (/\ q.kind = "flag" /\ q.pc = "commit" /\ Stepped(q)
           /\ Produced(f) /\ f.kind = "flag" /\ f.resp.code = 200)
          => LET o == q.orderNumber
                 old == IF o \in DOMAIN store THEN store[o] ELSE <<>>
             IN /\ f.resp = [code |-> 200, success |-> TRUE,
                             flagged |-> Truthy(q.flagged)]
                /\ DOMAIN store' = DOMAIN store \cup {o}
                /\ DOMAIN store'[o] = DOMAIN old \cup {"flagged", "lastUpdated"}
                /\ store'[o].flagged = Truthy(q.flagged)
                /\ store'[o].lastUpdated = q.data.lastUpdated
                /\ \A g \in DOMAIN old \ {"flagged", "lastUpdated"} :
                     store'[o][g] = old[g]
                /\ \A k \in DOMAIN store \ {o} : store'[k] = store[k]
                /\ meta' = meta]_vars

\* a flag request with the string "false" has flagged a synced order, beside
\* another order
C18_Witness ==
  \E q \in InFlight :
    /\ q.kind = "flag" /\ q.pc = "done" /\ q.resp.code = 200
    /\ q.flagged.type = "string" /\ q.resp.flagged = TRUE
    /\ q.orderNumber \in DOMAIN store
    /\ Has(store[q.orderNumber], "trackingNumber")
    /\ store[q.orderNumber].flagged = TRUE
    /\ DOMAIN store # {q.orderNumber}

\* the snapshot is not empty and holds no delivered record and no record
\* updated less than a cooldown before now
AllStale(querySnap, now) ==
  /\ Len(querySnap) > 0
  /\ \A i \in 1..Len(querySnap) :
       /\ ~IsDeliveredDoc(querySnap[i].data)
       /\ now - querySnap[i].data.lastUpdated >= SYNC_COOLDOWN_MS

\* C19: a refresh of t whose query finds records, none delivered and all of
\* them a cooldown old or older, calls the carrier once and then writes
\* {upsStatus, location, expectedDelivery, delivered, trackingUrl,
\* lastUpdated: now} in one batch to every record the query found (the
\* records whose trackingNumber was t), leaving their other fields, the
\* other records and SyncMeta alone; the response is the written fields.
C19_StaleRefresh ==
  [][\A q \in InFlight : \A f \in BagToSet(req') :
      /\ (/\ q.kind = "refresh" /\ q.pc = "query" /\ Stepped(q) /\ Produced(f)
          /\ AllStale(QueryByTracking(q.trackingNumber), q.now))
         => /\ f.pc = "commit" /\ f.called
            /\ {f.snap[i].id : i \in 1..Len(f.snap)}
                 = {k \in DOMAIN store :
                      /\ Has(store[k], "trackingNumber")
                      /\ store[k].trackingNumber = q.trackingNumber}
            /\ \A i \in 1..Len(f.snap) : f.snap[i].data = store[f.snap[i].id]
            /\ f.updateData \in {UpdateData(st, q.trackingNumber, q.now) :
                                    st \in CarrierStatuses}
            /\ DOMAIN f.updateData =
                 {"upsStatus", "location", "expectedDelivery", "delivered",
                  "trackingUrl", "lastUpdated"}
            /\ f.updateData.lastUpdated = q.now
            /\ store' = store /\ meta' = meta
      /\ (/\ q.kind = "refresh" /\ q.pc = "commit" /\ Stepped(q) /\ Produced(f)
          /\ AllStale(q.snap, q.now) /\ f.resp.code = 200)
         => LET ids == {q.snap[i].id : i \in 1..Len(q.snap)} IN
            /\ f.resp.body = q.updateData
            /\ DOMAIN store' = DOMAIN store
            /\ \A k \in ids :
                 /\ \A g \in DOMAIN q.updateData :
                      Has(store'[k], g) /\ store'[k][g] = q.updateData[g]
                 /\ \A g \in DOMAIN store[k] \ DOMAIN q.updateData :
                      Has(store'[k], g) /\ store'[k][g] = store[k][g]
            /\ \A k \in DOMAIN store \ ids : store'[k] = store[k]
            /\ meta' = meta]_vars

\* a refresh has found two stale records of its tracking number and both
\* now hold what the carrier reported
C19_Witness ==
  \E q \in InFlight :
    /\ q.kind = "refresh" /\ q.pc = "done" /\ q.called
    /\ q.resp.code = 200 /\ Len(q.snap) >= 2 /\ AllStale(q.snap, q.now)
    /\ \A i \in 1..Len(q.snap) :
         /\ store[q.snap[i].id].upsStatus = q.resp.body.upsStatus
         /\ store[q.snap[i].id].lastUpdated = q.now

\* two bulk syncs that both read the same SyncMeta before either committed,
\* both called the Order Source and both committed
RacingSyncs(a, b) ==
  /\ a.kind = "sync" /\ b.kind = "sync"
  /\ a.pc \in {"commit", "done"} /\ b.pc \in {"commit", "done"}
  /\ a.called /\ b.called
  /\ a.metaSnap = b.metaSnap
  /\ ~SyncSkips(a.metaSnap, a.now) /\ ~SyncSkips(b.metaSnap, b.now)

\* C20 as stated: after two bulk syncs have raced through the gate, the
\* collection is the state one of them alone produces. Taken where the two
\* are the only requests so far, so that both started from the empty
\* collection.
C20_RaceKeepsOneResult ==
  \A a, b \in InFlight :
    (/\ ops = 2 /\ RacingSyncs(a, b)
     /\ a # b \/ CopiesIn(a, req) >= 2
     /\ a.pc = "done" /\ a.resp.code = 200
     /\ b.pc = "done" /\ b.resp.code = 200)
    => \/ store = BatchWrites(<<>>, a.mockOrders)
       \/ store = BatchWrites(<<>>, b.mockOrders)

\* C20, amended: two bulk syncs can race through the gate, and when the
\* second of them commits, every order number it fetched holds its fields
\* (the later commit wins key by key), every other record, the first
\* sync's among them, is kept as it was, and SyncMeta.lastSync is the
\* second's now. The same for two refreshes of one tracking number: the
\* records the later one found hold its carrier fields.
C20_RaceLastWriterWins ==
  [][\A q \in InFlight : \A w \in InFlight : \A f \in BagToSet(req') :
      /\ (/\ q.pc = "commit" /\ Stepped(q) /\ Produced(f) /\ f.resp.code = 200
          /\ RacingSyncs(q, w) /\ w.pc = "done" /\ w.resp.code = 200)
         => /\ DOMAIN store' = DOMAIN store \cup DOMAIN q.mockOrders
            /\ \A k \in DOMAIN q.mockOrders :
                 /\ \A g \in DOMAIN q.mockOrders[k] :
                      Has(store'[k], g) /\ store'[k][g] = q.mockOrders[k][g]
                 /\ k \in DOMAIN store
                    => \A g \in DOMAIN store[k] \ DOMAIN q.mockOrders[k] :
                         Has(store'[k], g) /\ store'[k][g] = store[k][g]
            /\ \A k \in DOMAIN store \ DOMAIN q.mockOrders : store'[k] = store[k]
            /\ meta'.lastSync = q.now
      /\ (/\ q.kind = "refresh" /\ q.pc = "commit" /\ Stepped(q) /\ Produced(f)
          /\ f.resp.code = 200
          /\ w.kind = "refresh" /\ w.pc = "done" /\ w.called
          /\ w.resp.code = 200 /\ w.trackingNumber = q.trackingNumber
          /\ w.snap = q.snap)
         => /\ \A i \in 1..Len(q.snap) :
                 \A g \in DOMAIN q.updateData :
                   store'[q.snap[i].id][g] = q.updateData[g]
            /\ \A k \in DOMAIN store \ {q.snap[i].id : i \in 1..Len(q.snap)} :
                 store'[k] = store[k]]_vars

\* two bulk syncs raced through the gate and fetched different order
\* numbers; the collection holds the orders of both
C20_Witness ==
  \E a, b \in InFlight :
    /\ RacingSyncs(a, b)
    /\ a.pc = "done" /\ a.resp.code = 200
    /\ b.pc = "done" /\ b.resp.code = 200
    /\ DOMAIN a.mockOrders # DOMAIN b.mockOrders
    /\ DOMAIN store = DOMAIN a.mockOrders \cup DOMAIN b.mockOrders

\* two refreshes of one tracking number both found the same stale record
\* and both called the carrier
RefreshRace ==
  \E a, b \in InFlight :
    /\ a.kind = "refresh" /\ b.kind = "refresh"
    /\ a # b \/ CopiesIn(a, req) >= 2
    /\ a.pc = "done" /\ b.pc = "done" /\ a.called /\ b.called
    /\ a.resp.code = 200 /\ b.resp.code = 200
    /\ Len(a.snap) > 0 /\ a.snap = b.snap /\ AllStale(a.snap, a.now)
    /\ AllStale(b.snap, b.now)

\* d.lastUpdated || 0
LastUpdatedOf(d) == IF Has(d, "lastUpdated") THEN d.lastUpdated ELSE 0

\* two records of one group stand by lastUpdated, the later first
RecencyWithinGroups(data) ==
  \A i, j \in 1..Len(data) :
    (i < j /\ IsFlagged(data[i]) = IsFlagged(data[j]))
    => LastUpdatedOf(data[i]) >= LastUpdatedOf(data[j])

\* C21: in the list the Issues view returns, two records that are both
\* flagged, or both not flagged, stand by lastUpdated descending.
C21_IssuesRecency ==
  /\ \A q \in InFlight :
       (q.kind = "issues" /\ q.pc = "done") => RecencyWithinGroups(q.resp.data)
  /\ RecencyWithinGroups(MergedIssuesV1(FlaggedDocs,
                           RecentDocs("lastUpdated", RECENT_LIMIT_V1)))

\* C22: for every page >= 1 and limit > 0 a list request reports total =
\* the number of stored records passing its filter (the same on every
\* page), totalPages = the least n with n * limit >= total (0 when total =
\* 0), data = the elements (page-1)*limit+1 .. page*limit of the filtered
\* sequence as far as they exist, and no data on a page > totalPages.
\* Evaluated on the collection of every state in which no request is in
\* flight: every request in flight can end without a write (its batch
\* rejects) and be finished, so these are all the collections a list
\* request can be served from.
C22_GetPageArithmetic ==
  req = EmptyBag =>
  LET docs == BaselineDocs IN
  \A endpoint \in {"orders", "tracking"}, statusFilter \in StatusFilters \ {"Issues"} :
    LET Keep(item) == ListFilter(endpoint, item, statusFilter)
        filtered == SelectSeq(docs, Keep)
        passing == Cardinality(PassingKeys(endpoint, statusFilter))
    IN \A page \in 1..(MaxPage + 1), limit \in 1..MaxLimit :
         LET r == getPaginatedData(docs, endpoint, statusFilter, page, limit)
             start == (page - 1) * limit
         IN /\ r.total = passing
            /\ r.page = page
            /\ (r.totalPages - 1) * limit < r.total
            /\ r.total <= r.totalPages * limit
            /\ (r.total = 0) => (r.totalPages = 0)
            /\ Len(r.data) = Max({0, Min({limit, r.total - start})})
            /\ \A i \in 1..Len(r.data) : r.data[i] = filtered[start + i]
            /\ (page > r.totalPages) => (r.data = <<>>)

\* a list request for a page behind the last one was answered with no data
\* and the count of the records that pass its filter
C22_Witness ==
  \E q \in InFlight :
    /\ q.kind = "list" /\ q.pc = "done"
    /\ q.resp.total >= 1 /\ q.resp.page > q.resp.totalPages
    /\ q.resp.data = <<>>

\* n is the remaining time of a window that has run for elapsed ms, in
\* minutes rounded up
RemainingMinutes(n, elapsed) ==
  /\ n \in 1..30
  /\ (n - 1) * MINUTE_MS < SYNC_COOLDOWN_MS - elapsed
  /\ SYNC_COOLDOWN_MS - elapsed <= n * MINUTE_MS

\* times since the last sync inside one window
ElapsedProbes ==
  {0, 1, MINUTE_MS - 1, MINUTE_MS, MINUTE_MS + 1,
   SYNC_COOLDOWN_MS - MINUTE_MS, SYNC_COOLDOWN_MS - 1}

\* C23: a bulk sync skipped with 0 <= now - lastSync < COOLDOWN reports
\* nextSyncIn = the remaining time in minutes, rounded up: an integer from
\* 1 to 30, and 30 when the request comes at once after the sync that set
\* lastSync.
C23_SkippedRemainingTime ==
  [][/\ \A q \in InFlight : \A f \in BagToSet(req') :
          (/\ q.kind = "sync" /\ q.pc = "meta" /\ Stepped(q) /\ Produced(f)
           /\ Has(meta, "lastSync")
           /\ 0 <= q.now - meta.lastSync
           /\ q.now - meta.lastSync < SYNC_COOLDOWN_MS)
          => /\ f.pc = "done" /\ ~f.called
             /\ RemainingMinutes(f.resp.nextSyncIn, q.now - meta.lastSync)
             /\ (q.now - meta.lastSync < MINUTE_MS) => (f.resp.nextSyncIn = 30)
     /\ \A e \in ElapsedProbes :
          /\ SyncSkips([lastSync |-> clock], clock + e)
          /\ RemainingMinutes(NextSyncIn(clock + e, clock), e)]_vars

\* a sync was skipped in the millisecond of the sync that set lastSync, with
\* 30 minutes to wait, beside the orders that sync stored
C23_Witness ==
  \E q \in InFlight :
    /\ q.kind = "sync" /\ q.pc = "done" /\ ~q.called
    /\ Has(q.metaSnap, "lastSync") /\ q.now = q.metaSnap.lastSync
    /\ q.resp.nextSyncIn = 30 /\ store # <<>>

\* C24: no outcome of the query or of the batch that clocks out the active
\* logs ends addLogEntry: the call goes on to the add, and an add that
\* lands puts the new log at the end of the collection.
C24_PrimaryNeverBlocked ==
  [][\A q \in BagToSet(calls) : \A f \in BagToSet(calls') :
      (/\ CopiesIn(q, calls') < CopiesIn(q, calls)
       /\ CopiesIn(f, calls') > CopiesIn(f, calls))
      => /\ q.pc \in {"query", "commit"} => f.pc \in {"commit", "add"}
         /\ (q.pc = "add" /\ f.outcome = "resolved")
            => logs' = Append(logs, q.log)]_vars

\* the bulk sync q called the Order Source and its batch was written
Committed(q) ==
  /\ q.kind = "sync" /\ q.pc = "done" /\ q.called /\ q.resp.code = 200

\* C25: with bulk syncs handled one at a time, the request times of any two
\* syncs that called the Order Source and committed are a cooldown or more
\* apart, and no committed sync is later than SyncMeta.lastSync, whatever
\* refresh, flag and list requests run in between.
C25_OrderSourceCostBound ==
  /\ \A a, b \in InFlight :
       (Committed(a) /\ Committed(b) /\ (a # b \/ CopiesIn(a, req) >= 2))
       => (a.now - b.now >= SYNC_COOLDOWN_MS \/ b.now - a.now >= SYNC_COOLDOWN_MS)
  /\ \A a \in InFlight :
       Committed(a) => (Has(meta, "lastSync") /\ a.now <= meta.lastSync)

\* two bulk syncs, one after the other, have both called the Order Source
\* and committed, exactly a cooldown apart, and a record has been flagged
C25_Witness ==
  /\ \E a, b \in InFlight :
       Committed(a) /\ Committed(b) /\ b.now - a.now = SYNC_COOLDOWN_MS
  /\ meta.lastSync = clock
  /\ \E k \in DOMAIN store : IsFlagged(store[k])

\* C26: a stored record with delivered = true has delivered = true after
\* every step.
C26_DeliveredMonotone ==
  [][\A k \in DOMAIN store :
      (Has(store[k], "delivered") /\ store[k].delivered = TRUE)
      => /\ k \in DOMAIN store'
         /\ Has(store'[k], "delivered") /\ store'[k].delivered = TRUE]_vars

\* the stored records that carry the tracking number t
RecordsOf(t) ==
  {k \in DOMAIN store : Has(store[k], "trackingNumber")
                        /\ store[k].trackingNumber = t}

\* C27: when several stored records carry the tracking number t and one of
\* them is delivered, or has now - lastUpdated < COOLDOWN, a refresh of t
\* answers without a carrier call and without a write.
C27_SharedTrackingGate ==
  [][\A q \in InFlight : \A f \in BagToSet(req') :
      (/\ q.kind = "refresh" /\ q.pc = "query" /\ Stepped(q) /\ Produced(f)
       /\ Cardinality(RecordsOf(q.trackingNumber)) >= 2
       /\ \E k \in RecordsOf(q.trackingNumber) :
            \/ IsDeliveredDoc(store[k])
            \/ q.now - store[k].lastUpdated < SYNC_COOLDOWN_MS)
      => (f.pc = "done" /\ ~f.called /\ store' = store)]_vars

\* C28: every document of the collection carries an orderNumber equal to
\* its key, so that the Issues merge map, keyed by orderNumber, holds one
\* entry for each flagged document.
C28_KeyFieldAgreement ==
  /\ \A k \in DOMAIN store :
       Has(store[k], "orderNumber") /\ store[k].orderNumber = k
  /\ \A i, j \in 1..Len(FlaggedDocs) :
       i # j => OrderNumberOf(FlaggedDocs[i]) # OrderNumberOf(FlaggedDocs[j])

\* C29: a refresh of t at T', while a record of t that is not delivered
\* carries a lastUpdated T (the stamp of the bulk sync, flag or refresh that
\* wrote it last) with T' - T < COOLDOWN, answers with a stored record of t,
\* without a carrier call and without a write.
C29_WriteRestartsCooldown ==
  [][\A q \in InFlight : \A f \in BagToSet(req') :
      (/\ q.kind = "refresh" /\ q.pc = "query" /\ Stepped(q) /\ Produced(f)
       /\ \E k \in RecordsOf(q.trackingNumber) :
            /\ ~IsDeliveredDoc(store[k])
            /\ q.now - store[k].lastUpdated < SYNC_COOLDOWN_MS)
      => /\ f.pc = "done" /\ ~f.called /\ f.resp.code = 200
         /\ \E j \in RecordsOf(q.trackingNumber) : f.resp.body = store[j]
         /\ store' = store]_vars

\* the fields a refresh has to leave alone
OrderLevelFields ==
  {"orderNumber", "trackingNumber", "status", "labelCost", "flagged", "notes"}

\* C30: a refresh decides on the records of its query and its own clock
\* reading alone and never changes SyncMeta; its commit leaves, in every
\* record, orderNumber, trackingNumber, status, labelCost, flagged and notes
\* as they were (present with the same value, or absent); and a bulk sync
\* passes the gate exactly if SyncMeta has no lastSync or now - lastSync >=
\* COOLDOWN, whatever the records' lastUpdated.
C30_RefreshFrame ==
  [][\A q \in InFlight : \A f \in BagToSet(req') :
      /\ (q.kind = "refresh" /\ q.pc = "query" /\ Stepped(q) /\ Produced(f))
         => /\ meta' = meta /\ store' = store
            /\ f.snap = QueryByTracking(q.trackingNumber)
            /\ f.called = ~ServedFromCache(QueryByTracking(q.trackingNumber),
                                           q.now)
      /\ (q.kind = "refresh" /\ q.pc = "commit" /\ Stepped(q) /\ Produced(f))
         => /\ meta' = meta
            /\ DOMAIN store' = DOMAIN store
            /\ \A k \in DOMAIN store :
                 /\ DOMAIN store'[k] \cap OrderLevelFields
                      = DOMAIN store[k] \cap OrderLevelFields
                 /\ \A g \in DOMAIN store[k] \cap OrderLevelFields :
                      store'[k][g] = store[k][g]
      /\ (q.kind = "sync" /\ q.pc = "meta" /\ Stepped(q) /\ Produced(f))
         => f.called = (~Has(meta, "lastSync")
                        \/ q.now - meta.lastSync >= SYNC_COOLDOWN_MS)]_vars

\* a refresh has called the carrier and rewritten a flagged record that
\* keeps its flag and its label cost, at a time when a bulk sync would be
\* skipped
C30_Witness ==
  \E q \in InFlight :
    /\ q.kind = "refresh" /\ q.pc = "done" /\ q.called /\ q.resp.code = 200
    /\ SyncSkips(meta, q.now)
    /\ \E i \in 1..Len(q.snap) :
         LET d == store[q.snap[i].id] IN
         /\ IsFlagged(q.snap[i].data) /\ IsFlagged(d)
         /\ Has(d, "labelCost") /\ d.labelCost = q.snap[i].data.labelCost
         /\ d.upsStatus = q.resp.body.upsStatus /\ d.lastUpdated = q.now
=============================================================================
